---- MODULE Spec2Model ----
(***************************************************************************)
(* Model of the markov-mail model-export pipeline:                         *)
(*   cli/commands/model/train_forest.py  (tree_to_json,                    *)
(*                                        calculate_sample_weights, main)  *)
(*   cli/commands/model/export_tree.py   (node_to_json, main)              *)
(*   cli/commands/model/tune_hyperparameters.py (validate_ranges, main)    *)
(*   scripts/calibrate_scores.py         (generate_thresholds,             *)
(*                                        compute_threshold_metrics, main) *)
(*                                                                         *)
(* Numbers.  Python floats are modelled as exact decimals:                 *)
(*   d5  an integer count of 0.00001  (unrounded thresholds, row values,   *)
(*       scores, threshold ranges);                                        *)
(*   d4  an integer count of 0.0001   (the result of round(x, 4));         *)
(*   a quotient n/d that is never rounded is kept as the pair <<n, d>>.    *)
(* round(x, n) rounds half to even.                                        *)
(***************************************************************************)
EXTENDS Integers, Sequences, FiniteSets, TLC

VARIABLES
    \* ---- tree serialisation (tree_to_json / node_to_json)
    tpc,          \* "start" | "minified" | "full"
    tree_,        \* the estimator's node arrays
    tjson,        \* the record the serialiser returned
    \* ---- calculate_sample_weights
    wpc,          \* "start" | "done"
    X,            \* [columns |-> set of column names, rows |-> sequence of rows]
    conflict_weight,
    weights,
    wmode,        \* "none" | "weighted" | "skipped"  (which print branch ran)
    \* ---- calibrate_scores.py: the threshold scan of main
    cpc,          \* "start" | "generated" | "scanned" | "aborted"
    range,        \* <<threshold_min, threshold_max, threshold_step>>, d5
    scores,       \* calibrated scores, d5
    labels,       \* labels, parallel to scores
    thresholds,   \* what generate_thresholds returned, d4
    threshold_metrics,
    exit_message, \* the SystemExit message, "" when none
    \* ---- train_forest.py: main
    fpc,          \* the position of main
    args,         \* [dataset_exists, no_split, run_id]
    df,           \* [columns, legit, fraud]: the columns, and the rows per label
    feature_columns,
    clf,          \* [classes, estimators]: the fitted forest
    y_test,       \* [legit, fraud] of the held-out split, NoSample when none
    y_pred_test,  \* the set of classes predicted on the held-out split
    calibration_info,
    files,        \* the files written so far
    artifact,     \* what was written to --output
    raised,       \* the exception that ended main, "" when none
    exports,      \* the exports so far: the text each wrote to --output, its --run-id, its clock
    stdout,       \* the lines main has printed from the calibration on (lines 234-338)
    \* ---- the dataset loading of export_tree.py, train_forest.py, tune_hyperparameters.py
    lpc,          \* "start" | "training" | "trained" | "aborted"
    largs,        \* [command, dataset_exists, ranges]
    ldf,          \* the columns of the dataset read, in file order
    lfeatures,    \* feature_columns
    lraised,      \* the SystemExit message, "" when none
    \* ---- calibrate_scores.py: main (with cpc, range, scores, labels, thresholds,
    \*      threshold_metrics, exit_message above)
    input,        \* [exists, columns]: the file at --input
    model,        \* [intercept, coef]: the fitted LogisticRegression
    cfiles,       \* the files written so far
    cstdout       \* the lines printed

treeVars   == <<tpc, tree_, tjson>>
weightVars == <<wpc, X, conflict_weight, weights, wmode>>
scanVars   == <<cpc, range, scores, labels, thresholds, threshold_metrics, exit_message>>
forestVars == <<fpc, args, df, feature_columns, clf, y_test, y_pred_test,
                calibration_info, files, artifact, raised, exports, stdout>>
loadVars   == <<lpc, largs, ldf, lfeatures, lraised>>
calVars    == <<input, model, cfiles, cstdout>>
vars       == <<treeVars, weightVars, scanVars, forestVars, loadVars, calVars>>

\* Each specification below runs one part of the pipeline; the state of the
\* other parts stays idle.
NoJson == [t |-> "none"]

TreeIdle   == tpc = "idle" /\ tree_ = <<>> /\ tjson = NoJson
WeightIdle == wpc = "idle" /\ X = <<>> /\ conflict_weight = 0 /\ weights = <<>> /\ wmode = "none"
ScanIdle   == /\ cpc = "idle" /\ range = <<>> /\ scores = <<>> /\ labels = <<>>
              /\ thresholds = <<>> /\ threshold_metrics = <<>> /\ exit_message = ""
ForestIdle == /\ fpc = "idle" /\ args = <<>> /\ df = <<>> /\ feature_columns = <<>>
              /\ clf = <<>> /\ y_test = <<>> /\ y_pred_test = {}
              /\ calibration_info = <<>> /\ files = {} /\ artifact = <<>> /\ raised = ""
              /\ exports = {} /\ stdout = <<>>
LoadIdle   == lpc = "idle" /\ largs = <<>> /\ ldf = <<>> /\ lfeatures = <<>> /\ lraised = ""
CalIdle    == input = <<>> /\ model = <<>> /\ cfiles = {} /\ cstdout = <<>>

----------------------------------------------------------------------------
(* Rounding *)

\* round(x, 4) of a d5 value, as d4 (round half to even).  A decimal ending in
\* ...5 at the fifth place is no binary float, and which way Python rounds it
\* depends on its nearest float: the inputs below hold no such value.
Round4(x) ==
    LET q == x \div 10
        r == x % 10
    IN  IF r < 5 THEN q
        ELSE IF r > 5 THEN q + 1
        ELSE IF q % 2 = 0 THEN q ELSE q + 1

\* round(n / d, k decimals) for d > 0, n >= 0, as a count of 10^-k (scale = 10^k)
RoundRatio(n, d, scale) ==
    LET q == (n * scale) \div d
        r == (n * scale) % d
    IN  IF 2 * r < d THEN q
        ELSE IF 2 * r > d THEN q + 1
        ELSE IF q % 2 = 0 THEN q ELSE q + 1

D4 == 10000
D2 == 100

----------------------------------------------------------------------------
(* The estimator's arrays *)

TREE_UNDEFINED == -2      \* sklearn.tree._tree.TREE_UNDEFINED
TREE_LEAF      == -1      \* sklearn.tree._tree.TREE_LEAF

feature_names == <<"bigram_entropy", "domain_reputation_score">>

MaxCount == 3             \* a leaf holds at most MaxCount samples

ThresholdVals == {30004, 30006, 50000}          \* d5: rounds down, rounds up, stays
RowVals       == {30002, 30008, 50000, 70000}   \* d5

LeafValues == {c \in (0..MaxCount) \X (0..MaxCount) : c[1] + c[2] <= MaxCount}

\* Node arrays in sklearn's depth-first layout; node ids are 0-based, so the
\* arrays are read at node + 1.
Arrays(feat, thr, left, right, val) ==
    [feature |-> feat, threshold |-> thr, children_left |-> left,
     children_right |-> right, value |-> val]

\* a single leaf
OneNode(v) ==
    Arrays(<<TREE_UNDEFINED>>, <<TREE_UNDEFINED>>, <<TREE_LEAF>>, <<TREE_LEAF>>, <<v>>)

\* a split over two leaves
ThreeNodes(f, t, v) ==
    Arrays(<<f, TREE_UNDEFINED, TREE_UNDEFINED>>,
           <<t, TREE_UNDEFINED, TREE_UNDEFINED>>,
           <<1, TREE_LEAF, TREE_LEAF>>,
           <<2, TREE_LEAF, TREE_LEAF>>,
           <<<<0, 0>>, v[1], v[2]>>)

\* root, then a split on the left, a leaf on the right
FiveNodesLeft(f, t, v) ==
    Arrays(<<f[1], f[2], TREE_UNDEFINED, TREE_UNDEFINED, TREE_UNDEFINED>>,
           <<t[1], t[2], TREE_UNDEFINED, TREE_UNDEFINED, TREE_UNDEFINED>>,
           <<1, 2, TREE_LEAF, TREE_LEAF, TREE_LEAF>>,
           <<4, 3, TREE_LEAF, TREE_LEAF, TREE_LEAF>>,
           <<<<0, 0>>, <<0, 0>>, v[1], v[2], v[3]>>)

\* root, then a leaf on the left, a split on the right
FiveNodesRight(f, t, v) ==
    Arrays(<<f[1], TREE_UNDEFINED, f[2], TREE_UNDEFINED, TREE_UNDEFINED>>,
           <<t[1], TREE_UNDEFINED, t[2], TREE_UNDEFINED, TREE_UNDEFINED>>,
           <<1, TREE_LEAF, 3, TREE_LEAF, TREE_LEAF>>,
           <<2, TREE_LEAF, 4, TREE_LEAF, TREE_LEAF>>,
           <<<<0, 0>>, v[1], <<0, 0>>, v[2], v[3]>>)

FeatureIds == 0..(Len(feature_names) - 1)

\* tree is one of the trees of one, three or five nodes
IsTree(tree) ==
    \/ \E v \in LeafValues : tree = OneNode(v)
    \/ \E f \in FeatureIds, t \in ThresholdVals, v1, v2 \in LeafValues :
          tree = ThreeNodes(f, t, <<v1, v2>>)
    \/ \E f1, f2 \in FeatureIds, t1, t2 \in ThresholdVals, v1, v2, v3 \in LeafValues :
          \/ tree = FiveNodesLeft(<<f1, f2>>, <<t1, t2>>, <<v1, v2, v3>>)
          \/ tree = FiveNodesRight(<<f1, f2>>, <<t1, t2>>, <<v1, v2, v3>>)

\* a feature row: one value per feature name
Rows == [{feature_names[i] : i \in 1..Len(feature_names)} -> RowVals]

----------------------------------------------------------------------------
(* train_forest.py: tree_to_json *)

\* feature_name[node]: the name of the node's feature, "undefined!" at a leaf
feature_name(t, node) ==
    IF t.feature[node + 1] # TREE_UNDEFINED
    THEN feature_names[t.feature[node + 1] + 1]
    ELSE "undefined!"

\* the test of recurse's if: the node splits
IsSplit(t, node) == t.feature[node + 1] # TREE_UNDEFINED

\* faulty variant: the class-0 count is taken for the fraud count
LeafProba_class0(t, node) ==
    LET value == t.value[node + 1]
        total == value[1] + value[2]
    IN  IF total # 0 THEN <<value[1], total>> ELSE <<0, 1>>

\* proba = float(value[1] / total) if total else 0.0, as the quotient <<n, d>>
LeafProba(t, node) ==
    LET value == t.value[node + 1]
        total == value[1] + value[2]
    IN  IF total # 0 THEN <<value[2], total>> ELSE <<0, 1>>

\* faulty variant: the leaf record also carries the feature_name entry of its node
MinLeaf_withFeature(t, node) ==
    LET proba == LeafProba(t, node)
    IN  [t |-> "l", f |-> feature_name(t, node), v |-> RoundRatio(proba[1], proba[2], D4)]

\* {"t": "l", "v": round(proba, 4)}
MinLeaf(t, node) ==
    LET proba == LeafProba(t, node)
    IN  [t |-> "l", v |-> RoundRatio(proba[1], proba[2], D4)]

RECURSIVE recurse(_, _)
recurse(t, node) ==
    IF IsSplit(t, node)
    THEN [t |-> "n",
          f |-> feature_name(t, node),
          v |-> Round4(t.threshold[node + 1]),
          l |-> recurse(t, t.children_left[node + 1]),
          r |-> recurse(t, t.children_right[node + 1])]
    ELSE MinLeaf(t, node)

tree_to_json(t) == recurse(t, 0)

----------------------------------------------------------------------------
(* export_tree.py: node_to_json *)

\* max(0.0, min(1.0, proba)) of a quotient <<n, d>> with d > 0
Clamp01(q) ==
    IF q[1] < 0 THEN <<0, 1>>
    ELSE IF q[1] > q[2] THEN <<1, 1>>
    ELSE q

\* reason: "leaf", or f"p={proba:.2f} ({int(value[1])}/{int(total)})"
LeafReason(t, node) ==
    LET value == t.value[node + 1]
        total == value[1] + value[2]
        proba == LeafProba(t, node)
    IN  IF total # 0
        THEN <<"p=", RoundRatio(proba[1], proba[2], D2), value[2], total>>
        ELSE <<"leaf">>

FullLeaf(t, node) ==
    [type |-> "leaf", value |-> Clamp01(LeafProba(t, node)), reason |-> LeafReason(t, node)]

RECURSIVE node_to_json(_, _)
node_to_json(t, node_id) ==
    IF t.feature[node_id + 1] = TREE_UNDEFINED
    THEN FullLeaf(t, node_id)
    ELSE [type      |-> "node",
          feature   |-> feature_names[t.feature[node_id + 1] + 1],
          threshold |-> t.threshold[node_id + 1],
          operator  |-> "<=",
          left      |-> node_to_json(t, t.children_left[node_id + 1]),
          right     |-> node_to_json(t, t.children_right[node_id + 1])]

----------------------------------------------------------------------------
(* Serialising one tree *)

InitTree ==
    /\ tpc = "start"
    /\ IsTree(tree_)
    /\ tjson = NoJson
    /\ WeightIdle
    /\ ScanIdle
    /\ ForestIdle
    /\ LoadIdle
    /\ CalIdle

\* train_forest.py line 293: forest_json.append(tree_to_json(estimator, feature_columns))
TreeToJson ==
    /\ tpc = "start"
    /\ tjson' = tree_to_json(tree_)
    /\ tpc' = "minified"
    /\ UNCHANGED <<tree_, weightVars, scanVars, forestVars, loadVars, calVars>>

\* export_tree.py line 86: tree_json = node_to_json(clf.tree_, feature_columns, node_id=0)
NodeToJson ==
    /\ tpc = "start"
    /\ tjson' = node_to_json(tree_, 0)
    /\ tpc' = "full"
    /\ UNCHANGED <<tree_, weightVars, scanVars, forestVars, loadVars, calVars>>

NextTree == TreeToJson \/ NodeToJson

SpecTree == InitTree /\ [][NextTree]_vars

----------------------------------------------------------------------------
(* train_forest.py: calculate_sample_weights *)

\* the conflict zone of line 81, with feature values in tenths
EntropyCut    == 30       \* bigram_entropy > 3.0
ReputationCut == 6        \* domain_reputation_score >= 0.6

MaxRows == 3              \* rows of a dataset

EntropyVals    == {30, 31}     \* tenths
ReputationVals == {5, 6}       \* tenths
WeightVals     == {1, 2, 20}   \* --conflict-weight

ZoneColumns == {"bigram_entropy", "domain_reputation_score"}

ColumnVals(c) == IF c = "bigram_entropy" THEN EntropyVals ELSE ReputationVals

\* the rows of a frame with the columns cols
FrameRows(cols) == {r \in [cols -> EntropyVals \cup ReputationVals] :
                        \A c \in cols : r[c] \in ColumnVals(c)}

Frames ==
    UNION { { [columns |-> cols, rows |-> rs] :
                rs \in UNION {[1..n -> FrameRows(cols)] : n \in 0..MaxRows} } :
            cols \in SUBSET ZoneColumns }

\* faulty variant: the entropy bound is taken inclusive
InConflictZone_inclusive(row) ==
    row["bigram_entropy"] >= EntropyCut /\ row["domain_reputation_score"] >= ReputationCut

\* conflict_mask: (X['bigram_entropy'] > 3.0) & (X['domain_reputation_score'] >= 0.6)
InConflictZone(row) ==
    row["bigram_entropy"] > EntropyCut /\ row["domain_reputation_score"] >= ReputationCut

\* the test of line 80
HasZoneColumns(x) ==
    "bigram_entropy" \in x.columns /\ "domain_reputation_score" \in x.columns

\* weights = np.ones(len(df)); weights[conflict_mask] = conflict_weight
calculate_sample_weights(x, w) ==
    IF HasZoneColumns(x)
    THEN [i \in 1..Len(x.rows) |-> IF InConflictZone(x.rows[i]) THEN w ELSE 1]
    ELSE [i \in 1..Len(x.rows) |-> 1]

InitWeights ==
    /\ wpc = "start"
    /\ X \in Frames
    /\ conflict_weight \in WeightVals
    /\ weights = <<>>
    /\ wmode = "none"
    /\ TreeIdle
    /\ ScanIdle
    /\ ForestIdle
    /\ LoadIdle
    /\ CalIdle

\* train_forest.py line 130: sample_weights = calculate_sample_weights(df, X, args.conflict_weight)
CalculateSampleWeights ==
    /\ wpc = "start"
    /\ weights' = calculate_sample_weights(X, conflict_weight)
    /\ wmode' = IF HasZoneColumns(X) THEN "weighted" ELSE "skipped"
    /\ wpc' = "done"
    /\ UNCHANGED <<X, conflict_weight, treeVars, scanVars, forestVars, loadVars, calVars>>

NextWeights == CalculateSampleWeights

SpecWeights == InitWeights /\ [][NextWeights]_vars

----------------------------------------------------------------------------
(* calibrate_scores.py: generate_thresholds *)

\* faulty variant: the range check rejects max = min as well
RangeError_strict(min_threshold, max_threshold, step) ==
    IF step <= 0 THEN "--threshold-step must be greater than 0"
    ELSE IF max_threshold <= min_threshold
         THEN "--threshold-max must be greater than or equal to --threshold-min"
         ELSE ""

\* lines 50-53: the message of the SystemExit raised, "" when none is
RangeError(min_threshold, max_threshold, step) ==
    IF step <= 0 THEN "--threshold-step must be greater than 0"
    ELSE IF max_threshold < min_threshold
         THEN "--threshold-max must be greater than or equal to --threshold-min"
         ELSE ""

\* lines 55-61: epsilon = step / 10; while current <= max_threshold + epsilon
RECURSIVE ThresholdLoop(_, _, _, _)
ThresholdLoop(acc, current, max_threshold, step) ==
    IF 10 * current <= 10 * max_threshold + step
    THEN ThresholdLoop(Append(acc, Round4(current)), current + step, max_threshold, step)
    ELSE acc

generate_thresholds(min_threshold, max_threshold, step) ==
    ThresholdLoop(<<>>, min_threshold, max_threshold, step)

----------------------------------------------------------------------------
(* calibrate_scores.py: compute_threshold_metrics *)

\* faulty variant: the comparison of line 65 turned round
Predicted_below(score, threshold) == score <= 10 * threshold

\* predictions = scores >= threshold   (score d5, threshold d4)
Predicted(score, threshold) == score >= 10 * threshold

\* faulty variant: the quotient is cut after 4 decimals, not rounded
RatioOrZero_truncated(x, y) == IF y # 0 THEN (x * D4) \div y ELSE 0

\* x / y if y else 0.0, rounded to 4 decimals
RatioOrZero(x, y) == IF y # 0 THEN RoundRatio(x, y, D4) ELSE 0

compute_threshold_metrics(sc, lb, threshold) ==
    LET idx == 1..Len(sc)
        tp == Cardinality({i \in idx : Predicted(sc[i], threshold) /\ lb[i] = 1})
        fp == Cardinality({i \in idx : Predicted(sc[i], threshold) /\ lb[i] # 1})
        fn == Cardinality({i \in idx : ~Predicted(sc[i], threshold) /\ lb[i] = 1})
        tn == Cardinality({i \in idx : ~Predicted(sc[i], threshold) /\ lb[i] # 1})
    IN  [threshold |-> threshold,
         tp |-> tp, fp |-> fp, tn |-> tn, fn |-> fn,
         precision |-> RatioOrZero(tp, tp + fp),
         recall    |-> RatioOrZero(tp, tp + fn),
         fpr       |-> RatioOrZero(fp, fp + tn),
         fnr       |-> RatioOrZero(fn, tp + fn),
         support_positive |-> Cardinality({i \in idx : lb[i] = 1}),
         support_negative |-> Cardinality({i \in idx : lb[i] # 1})]

----------------------------------------------------------------------------
(* calibrate_scores.py: the threshold scan of main, lines 120-121 *)

MaxScanRows == 3          \* rows of a calibration sample

ScoreVals == {30000, 50000, 90000}       \* d5
LabelVals == {0, 1}

\* scan ranges <<min, max, step>>, d5: coarse ones, sub-0.0001 ones, the defaults
CoarseRanges == {0, 50000} \X {0, 19800, 50000} \X {-5000, 0, 5000, 10000}
FineRanges   == {0} \X {10, 12} \X {2, 4}
DefaultRange == <<5000, 95000, 5000>>     \* parse_args: 0.05, 0.95, 0.05
Ranges       == CoarseRanges \cup FineRanges \cup {DefaultRange}

FixtureScores == <<90000, 80000, 30000, 10000>>
FixtureLabels == <<1, 1, 0, 0>>

Samples ==
    UNION { [1..n -> ScoreVals] \X [1..n -> LabelVals] : n \in 0..MaxScanRows }
    \cup {<<FixtureScores, FixtureLabels>>}

InitScan ==
    /\ cpc = "start"
    /\ range \in Ranges
    /\ \E s \in Samples : scores = s[1] /\ labels = s[2]
    /\ thresholds = <<>>
    /\ threshold_metrics = <<>>
    /\ exit_message = ""
    /\ TreeIdle
    /\ WeightIdle
    /\ ForestIdle
    /\ LoadIdle
    /\ CalIdle

\* line 120: thresholds = generate_thresholds(args.threshold_min, ..max, ..step)
GenerateThresholds ==
    /\ cpc = "start"
    /\ LET err == RangeError(range[1], range[2], range[3])
       IN  IF err # ""
           THEN /\ cpc' = "aborted"
                /\ exit_message' = err
                /\ UNCHANGED thresholds
           ELSE /\ cpc' = "generated"
                /\ thresholds' = generate_thresholds(range[1], range[2], range[3])
                /\ UNCHANGED exit_message
    /\ UNCHANGED <<range, scores, labels, threshold_metrics, treeVars, weightVars, forestVars, loadVars, calVars>>

\* line 121: threshold_metrics = [compute_threshold_metrics(scores, labels, t) for t in thresholds]
ComputeThresholdMetrics ==
    /\ cpc = "generated"
    /\ threshold_metrics' =
          [i \in 1..Len(thresholds) |-> compute_threshold_metrics(scores, labels, thresholds[i])]
    /\ cpc' = "scanned"
    /\ UNCHANGED <<range, scores, labels, thresholds, exit_message, treeVars, weightVars, forestVars, loadVars, calVars>>

NextScan == GenerateThresholds \/ ComputeThresholdMetrics

SpecScan == InitScan /\ [][NextScan]_vars

----------------------------------------------------------------------------
(* train_forest.py: main *)
(* The dataset is kept as its column list and its number of rows per label; *)
(* what the learning library returns (the split, the fitted forest, its     *)
(* predictions, the fitted coefficients) is chosen among the outcomes that  *)
(* library has for such data.  main catches nothing: an exception of a      *)
(* library call ends it at that line.                                       *)

MaxLegit == 8             \* rows labelled 0
MaxFraud == 2             \* rows labelled 1
MaxTrees == 2             \* --n-trees
MaxExports == 2           \* distinct exports of one dataset

label_column == "label"   \* parse_args: --label-column default

ColumnLists ==
    { <<"label">>,
      <<"bigram_entropy">>,
      <<"id", "email", "label">>,
      <<"bigram_entropy", "label">>,
      <<"id", "bigram_entropy", "domain_reputation_score", "label">>,
      <<"domain_reputation_score", "label", "timestamp", "bigram_entropy">> }

\* --run-id: absent (None), or the string given
RunIdArgs == { [given |-> FALSE, value |-> ""],
               [given |-> TRUE,  value |-> ""],
               [given |-> TRUE,  value |-> "run-7"] }

ClockVals     == {1000, 1001}    \* time.time() * 1000, two successive milliseconds
InterceptVals == {-1}
CoefVals      == {-2, 4}

NoFrame  == [columns |-> <<>>, legit |-> 0, fraud |-> 0]
NoSample == [legit |-> -1, fraud |-> -1]
NoClf    == [classes |-> {}, estimators |-> <<>>, feature_importances_ |-> <<>>]
NoInfo   == [method |-> "None"]
NoArtifact == [forest |-> <<>>]

\* the trees a fit may return: a bare leaf, and one split
EstimatorTrees ==
    { OneNode(<<2, 1>>), ThreeNodes(0, 30004, <<<<3, 0>>, <<0, 2>>>>) }

\* feature_importances_ of a forest over n features, in percent
Importances(n) == { [i \in 1..n |-> IF i = k THEN 100 ELSE 0] : k \in 1..n }

Classes(sample) ==
    (IF sample.legit > 0 THEN {0} ELSE {}) \cup (IF sample.fraud > 0 THEN {1} ELSE {})

Size(sample) == sample.legit + sample.fraud

\* line 114
non_feature_cols == {label_column, "id", "email", "timestamp", "created_at"}

IsFeatureColumn(c) == c \notin non_feature_cols

\* line 115: feature_columns = [c for c in df.columns if c not in non_feature_cols]
FeatureColumns(columns) == SelectSeq(columns, IsFeatureColumn)

InSeq(x, q) == \E i \in 1..Len(q) : q[i] = x

\* lines 139-141: train_test_split(X, y, sample_weights, test_size=0.2, random_state=42, stratify=y)
TestSize(n) == (n + 4) \div 5                 \* ceil(0.2 * n)

SplitRaises(d) ==
    LET n == Size(d)
        k == Cardinality(Classes(d))
    IN  \/ n - TestSize(n) = 0
        \/ (d.legit > 0 /\ d.legit < 2) \/ (d.fraud > 0 /\ d.fraud < 2)
        \/ TestSize(n) < k
        \/ n - TestSize(n) < k

\* the stratified split: the training rows of each class are its share of
\* n_train rounded down, the rows left over going to the classes with the
\* largest remainders (either class on a tie); the held-out sample is the rest
Splits(d) ==
    LET n      == Size(d)
        ntrain == n - TestSize(n)
        fl     == (d.legit * ntrain) \div n
        ff     == (d.fraud * ntrain) \div n
        rl     == (d.legit * ntrain) % n
        rf     == (d.fraud * ntrain) % n
        train  == IF fl + ff = ntrain THEN {<<fl, ff>>}
                  ELSE (IF rl >= rf THEN {<<fl + 1, ff>>} ELSE {})
                       \cup (IF rf >= rl THEN {<<fl, ff + 1>>} ELSE {})
    IN  { [legit |-> d.legit - t[1], fraud |-> d.fraud - t[2]] : t \in train }

\* the training sample: everything (--no-split) or what the split left
TrainSample ==
    IF args.no_split THEN [legit |-> df.legit, fraud |-> df.fraud]
    ELSE [legit |-> df.legit - y_test.legit, fraud |-> df.fraud - y_test.fraud]

Abort(exception) == fpc' = "aborted" /\ raised' = exception

InitForest ==
    /\ fpc = "start"
    /\ args \in [dataset_exists : BOOLEAN, no_split : BOOLEAN,
                 run_id : RunIdArgs, n_trees : 1..MaxTrees]
    /\ IF args.dataset_exists
       THEN df \in [columns : ColumnLists, legit : 0..MaxLegit, fraud : 0..MaxFraud]
       ELSE df = NoFrame
    /\ feature_columns = <<>>
    /\ clf = NoClf
    /\ y_test = NoSample
    /\ y_pred_test = {}
    /\ calibration_info = NoInfo
    /\ files = {}
    /\ artifact = NoArtifact
    /\ raised = ""
    /\ exports = {}
    /\ stdout = <<>>
    /\ TreeIdle
    /\ WeightIdle
    /\ ScanIdle
    /\ LoadIdle
    /\ CalIdle

\* lines 95-98
CheckDataset ==
    /\ fpc = "start"
    /\ IF ~args.dataset_exists
       THEN Abort("SystemExit: Dataset not found")
       ELSE fpc' = "found" /\ UNCHANGED raised
    /\ UNCHANGED <<args, df, feature_columns, clf, y_test, y_pred_test,
                   calibration_info, files, artifact, exports, stdout, treeVars, weightVars, scanVars, loadVars, calVars>>

\* lines 106-110
LoadDataset ==
    /\ fpc = "found"
    /\ IF ~InSeq(label_column, df.columns)
       THEN Abort("SystemExit: Missing label column")
       ELSE fpc' = "loaded" /\ UNCHANGED raised
    /\ UNCHANGED <<args, df, feature_columns, clf, y_test, y_pred_test,
                   calibration_info, files, artifact, exports, stdout, treeVars, weightVars, scanVars, loadVars, calVars>>

\* lines 112-130: the feature set (the sample weights feed the fit alone)
SelectFeatures ==
    /\ fpc = "loaded"
    /\ feature_columns' = FeatureColumns(df.columns)
    /\ IF feature_columns' = <<>>
       THEN Abort("SystemExit: Dataset does not contain feature columns")
       ELSE fpc' = "selected" /\ UNCHANGED raised
    /\ UNCHANGED <<args, df, clf, y_test, y_pred_test,
                   calibration_info, files, artifact, exports, stdout, treeVars, weightVars, scanVars, loadVars, calVars>>

\* lines 132-144
Split ==
    /\ fpc = "selected"
    /\ IF args.no_split
       THEN fpc' = "split" /\ UNCHANGED <<y_test, raised>>
       ELSE IF SplitRaises(df)
            THEN Abort("ValueError: train_test_split") /\ UNCHANGED y_test
            ELSE /\ y_test' \in Splits(df)
                 /\ fpc' = "split"
                 /\ UNCHANGED raised
    /\ UNCHANGED <<args, df, feature_columns, clf, y_pred_test,
                   calibration_info, files, artifact, exports, stdout, treeVars, weightVars, scanVars, loadVars, calVars>>

\* lines 146-161: clf.fit(X_train, y_train, sample_weight=w_train)
Train ==
    /\ fpc = "split"
    /\ IF Size(TrainSample) = 0
       THEN Abort("ValueError: RandomForestClassifier.fit") /\ UNCHANGED clf
       ELSE /\ \E est \in [1..args.n_trees -> EstimatorTrees],
                  imp \in Importances(Len(feature_columns)) :
                    clf' = [classes |-> Classes(TrainSample),
                            estimators |-> est,
                            feature_importances_ |-> imp]
            /\ fpc' = "trained"
            /\ UNCHANGED raised
    /\ UNCHANGED <<args, df, feature_columns, y_test, y_pred_test,
                   calibration_info, files, artifact, exports, stdout, treeVars, weightVars, scanVars, loadVars, calVars>>

\* lines 165-212: the held-out metrics.  predict_proba(X_test)[:, 1] needs a
\* second class in the forest; cm[0,1] needs a second label among y_test and
\* the predictions.
Evaluate ==
    /\ fpc = "trained"
    /\ IF args.no_split
       THEN fpc' = "evaluated" /\ UNCHANGED <<y_pred_test, raised>>
       ELSE IF Cardinality(clf.classes) < 2
            THEN Abort("IndexError: predict_proba(X_test)[:, 1]") /\ UNCHANGED y_pred_test
            ELSE \E pred \in (SUBSET clf.classes) \ {{}} :
                    /\ y_pred_test' = pred
                    /\ IF Cardinality(Classes(y_test) \cup pred) < 2
                       THEN Abort("IndexError: cm[0,1]")
                       ELSE fpc' = "evaluated" /\ UNCHANGED raised
    /\ UNCHANGED <<args, df, feature_columns, clf, y_test,
                   calibration_info, files, artifact, exports, stdout, treeVars, weightVars, scanVars, loadVars, calVars>>

\* faulty variant: the calibration is always fitted on the training rows
calibration_labels_train == TrainSample

\* lines 222-232: the calibration sample
calibration_labels == IF ~args.no_split THEN y_test ELSE TrainSample

calibration_mode ==
    IF ~args.no_split THEN "test set (held-out 20%)" ELSE "training set (100% of data)"

\* lines 234-235
CalibrationDataset ==
    << "Calibration dataset: " \o calibration_mode,
       "  Samples: " \o ToString(Size(calibration_labels)) >>

\* lines 250-252
PlattCoefficients(info) ==
    << "Platt Scaling Coefficients:",
       "  Intercept: " \o ToString(info.intercept),
       "  Coefficient: " \o ToString(info.coef) >>

\* lines 214-252: calibrator.fit(calibration_inputs, calibration_labels)
FitCalibration ==
    /\ fpc = "evaluated"
    /\ IF args.no_split /\ Cardinality(clf.classes) < 2
       THEN Abort("IndexError: predict_proba(X_train)[:, 1]")
            /\ UNCHANGED <<calibration_info, stdout>>
       ELSE IF Cardinality(Classes(calibration_labels)) < 2
            THEN Abort("ValueError: LogisticRegression.fit needs samples of at least 2 classes")
                 /\ stdout' = CalibrationDataset
                 /\ UNCHANGED calibration_info
            ELSE /\ \E i \in InterceptVals, c \in CoefVals :
                       calibration_info' = [method |-> "platt", intercept |-> i, coef |-> c,
                                            samples |-> Size(calibration_labels)]
                 /\ stdout' = CalibrationDataset \o PlattCoefficients(calibration_info')
                 /\ fpc' = "calibrated"
                 /\ UNCHANGED raised
    /\ UNCHANGED <<args, df, feature_columns, clf, y_test, y_pred_test,
                   files, artifact, exports, treeVars, weightVars, scanVars, loadVars, calVars>>

\* lines 254-261: calibration_df.to_csv(calibration_path, index=False)
SaveCalibration ==
    /\ fpc = "calibrated"
    /\ files' = files \cup {"calibration_output"}
    /\ stdout' = Append(stdout, "Saved calibration dataset")
    /\ fpc' = "saved"
    /\ UNCHANGED <<args, df, feature_columns, clf, y_test, y_pred_test,
                   calibration_info, artifact, raised, exports, treeVars, weightVars, scanVars, loadVars, calVars>>

\* lines 288-293
forest_json == [i \in 1..Len(clf.estimators) |-> tree_to_json(clf.estimators[i])]

\* faulty variant: only an absent --run-id is replaced by the clock
RunId_unless_none(now) ==
    IF ~args.run_id.given THEN ToString(now)
    ELSE args.run_id.value

\* lines 295-299: args.run_id, or str(int(time.time() * 1000)) when it is falsy
RunId(now) ==
    IF ~args.run_id.given \/ args.run_id.value = "" THEN ToString(now)
    ELSE args.run_id.value

\* faulty variant: the export time is stamped into the version string
Meta_stamped(now) ==
    [version |-> "3.0.0-forest+" \o ToString(now),
     runId |-> RunId(now),
     nTrees |-> args.n_trees,
     features |-> feature_columns,
     feature_importance |-> clf.feature_importances_,
     tree_count |-> Len(forest_json),
     config |-> [n_trees |-> args.n_trees, no_split |-> args.no_split]]

\* lines 301-319
Meta(now) ==
    [version |-> "3.0.0-forest",
     runId |-> RunId(now),
     nTrees |-> args.n_trees,
     features |-> feature_columns,
     feature_importance |-> clf.feature_importances_,
     tree_count |-> Len(forest_json),
     config |-> [n_trees |-> args.n_trees, no_split |-> args.no_split]]

\* lines 321-322: if calibration_info: artifact["meta"]["calibration"] = calibration_info
WithCalibration(meta) ==
    IF calibration_info # NoInfo
    THEN meta @@ [calibration |-> calibration_info]
    ELSE meta

\* line 326: json.dumps(artifact, separators=(',', ':')) writes a dict's items in
\* the order the keys were inserted, which for meta is that of lines 302-318
\* followed by line 322
MetaKeys ==
    <<"version", "runId", "nTrees", "features", "feature_importance",
      "tree_count", "config", "calibration">>

Items(d, keys) ==
    LET present(k) == k \in DOMAIN d
        ks == SelectSeq(keys, present)
    IN  [i \in 1..Len(ks) |-> <<ks[i], d[ks[i]]>>]

dumps(a) == << <<"meta", Items(a.meta, MetaKeys)>>, <<"forest", a.forest>> >>

\* lines 263-338, the headings printed: the forests here are far below the
\* 25 MB over which line 334 prints a size warning instead of line 337
ExportReport ==
    << "Feature Importance (Top 15)", "Exporting to JSON",
       "Random Forest saved", "Fits within KV 25MB limit" >>

\* lines 263-338: the importances, the forest, the artifact, its size report
WriteArtifact ==
    /\ fpc = "saved"
    /\ \E now \in ClockVals :
          /\ artifact' = [meta |-> WithCalibration(Meta(now)), forest |-> forest_json]
          /\ exports' = exports \cup {[run_id |-> args.run_id, now |-> now,
                                        text |-> dumps(artifact')]}
    /\ files' = files \cup {"output"}
    /\ stdout' = stdout \o ExportReport
    /\ fpc' = "done"
    /\ UNCHANGED <<args, df, feature_columns, clf, y_test, y_pred_test,
                   calibration_info, raised, treeVars, weightVars, scanVars, loadVars, calVars>>

\* the command run once more on the same dataset with the same hyperparameters,
\* under any --run-id: lines 93-261 come to the same split, the same forest
\* (random_state=42) and the same calibration, and rewrite the calibration CSV
Rerun ==
    /\ fpc = "done"
    /\ Cardinality(exports) < MaxExports
    /\ \E r \in RunIdArgs : args' = [args EXCEPT !.run_id = r]
    /\ fpc' = "saved"
    /\ stdout' = Append(CalibrationDataset \o PlattCoefficients(calibration_info),
                        "Saved calibration dataset")
    /\ UNCHANGED <<df, feature_columns, clf, y_test, y_pred_test, calibration_info,
                   files, artifact, raised, exports, treeVars, weightVars, scanVars, loadVars, calVars>>

NextForest ==
    \/ CheckDataset \/ LoadDataset \/ SelectFeatures \/ Split \/ Train
    \/ Evaluate \/ FitCalibration \/ SaveCalibration \/ WriteArtifact \/ Rerun

SpecForest == InitForest /\ [][NextForest]_vars

----------------------------------------------------------------------------
(* calibrate_scores.py: main.  The file at --input is kept as its existence *)
(* and its columns; labels is its label column, and scores holds the        *)
(* calibrated scores the fitted model returns for its rows.  main catches   *)
(* nothing.                                                                 *)

InputColumns ==
    { {"score", "label"}, {"score", "label", "calibrated_score"}, {"score"}, {"label"} }

\* --threshold-min/max/step: the defaults, a zero and a negative step, max < min
MainRanges ==
    {DefaultRange, <<0, 50000, 0>>, <<0, 50000, -5000>>, <<50000, 0, 5000>>}

NoInput == [exists |-> FALSE, columns |-> {}]
NoModel == [intercept |-> 0, coef |-> 0]

HasScoreAndLabel == "score" \in input.columns /\ "label" \in input.columns

InitCalibrate ==
    /\ cpc = "start"
    /\ range \in MainRanges
    /\ input \in {NoInput} \cup [exists : {TRUE}, columns : InputColumns]
    /\ IF input.exists /\ HasScoreAndLabel
       THEN \E s \in Samples : scores = s[1] /\ labels = s[2]
       ELSE scores = <<>> /\ labels = <<>>
    /\ thresholds = <<>>
    /\ threshold_metrics = <<>>
    /\ exit_message = ""
    /\ model = NoModel
    /\ cfiles = {}
    /\ cstdout = <<>>
    /\ TreeIdle
    /\ WeightIdle
    /\ ForestIdle
    /\ LoadIdle

Exit(message) == cpc' = "aborted" /\ exit_message' = message

\* lines 95-100
CheckInput ==
    /\ cpc = "start"
    /\ IF ~input.exists
       THEN Exit("Calibration input file not found")
       ELSE cpc' = "found" /\ UNCHANGED exit_message
    /\ UNCHANGED <<range, scores, labels, thresholds, threshold_metrics,
                   calVars, treeVars, weightVars, forestVars, loadVars>>

\* lines 102-104
ReadInput ==
    /\ cpc = "found"
    /\ IF ~HasScoreAndLabel
       THEN Exit("Calibration CSV must contain 'score' and 'label' columns.")
       ELSE cpc' = "read" /\ UNCHANGED exit_message
    /\ UNCHANGED <<range, scores, labels, thresholds, threshold_metrics,
                   calVars, treeVars, weightVars, forestVars, loadVars>>

\* lines 106-115: model.fit(X, y) raises ValueError unless y holds two classes
FitModel ==
    /\ cpc = "read"
    /\ IF Cardinality({labels[i] : i \in 1..Len(labels)}) < 2
       THEN Exit("ValueError: LogisticRegression.fit") /\ UNCHANGED model
       ELSE /\ model' \in [intercept : InterceptVals, coef : CoefVals]
            /\ cpc' = "fitted"
            /\ UNCHANGED exit_message
    /\ UNCHANGED <<range, scores, labels, thresholds, threshold_metrics,
                   input, cfiles, cstdout, treeVars, weightVars, forestVars, loadVars>>

\* lines 117-118: df.to_csv(output_path, index=False)
SaveCalibrated ==
    /\ cpc = "fitted"
    /\ cfiles' = cfiles \cup {"output"}
    /\ cpc' = "saved"
    /\ UNCHANGED <<range, scores, labels, thresholds, threshold_metrics, exit_message,
                   input, model, cstdout, treeVars, weightVars, forestVars, loadVars>>

\* lines 120-121
ScanThresholds ==
    /\ cpc = "saved"
    /\ LET err == RangeError(range[1], range[2], range[3])
       IN  IF err # ""
           THEN Exit(err) /\ UNCHANGED <<thresholds, threshold_metrics>>
           ELSE /\ thresholds' = generate_thresholds(range[1], range[2], range[3])
                /\ threshold_metrics' =
                      [i \in 1..Len(thresholds') |->
                          compute_threshold_metrics(scores, labels, thresholds'[i])]
                /\ cpc' = "scanned"
                /\ UNCHANGED exit_message
    /\ UNCHANGED <<range, scores, labels, calVars, treeVars, weightVars, forestVars, loadVars>>

\* lines 123-131: threshold_json_path.write_text(json.dumps(threshold_report, indent=2))
WriteThresholdJson ==
    /\ cpc = "scanned"
    /\ cfiles' = cfiles \cup {"threshold_json"}
    /\ cpc' = "json_written"
    /\ UNCHANGED <<range, scores, labels, thresholds, threshold_metrics, exit_message,
                   input, model, cstdout, treeVars, weightVars, forestVars, loadVars>>

\* lines 133-135: pd.DataFrame(threshold_metrics).to_csv(threshold_csv_path, index=False)
WriteThresholdCsv ==
    /\ cpc = "json_written"
    /\ cfiles' = cfiles \cup {"threshold_csv"}
    /\ cpc' = "csv_written"
    /\ UNCHANGED <<range, scores, labels, thresholds, threshold_metrics, exit_message,
                   input, model, cstdout, treeVars, weightVars, forestVars, loadVars>>

\* lines 137-142
PrintSummary ==
    /\ cpc = "csv_written"
    /\ cstdout' = << "Calibration coefficients:",
                     "  intercept: " \o ToString(model.intercept),
                     "  coef: " \o ToString(model.coef),
                     "Saved calibrated scores",
                     "Saved threshold scan JSON",
                     "Saved threshold scan CSV" >>
    /\ cpc' = "done"
    /\ UNCHANGED <<range, scores, labels, thresholds, threshold_metrics, exit_message,
                   input, model, cfiles, treeVars, weightVars, forestVars, loadVars>>

NextCalibrate ==
    \/ CheckInput \/ ReadInput \/ FitModel \/ SaveCalibrated \/ ScanThresholds
    \/ WriteThresholdJson \/ WriteThresholdCsv \/ PrintSummary

SpecCalibrate == InitCalibrate /\ [][NextCalibrate]_vars

----------------------------------------------------------------------------
(* The dataset loading of the three commands that train on a dataset: each  *)
(* main from its start to the fit it hands the feature columns to.          *)

MaxColumns == 3           \* columns of the dataset

ColumnNames ==
    {"label", "id", "email", "timestamp", "created_at",
     "bigram_entropy", "domain_reputation_score"}

Commands == {"export-tree", "train-forest", "tune-hyperparameters"}

\* --n-estimators-min/max, --max-depth-min/max, --min-samples-leaf-min/max
MinMax == {<<1, 2>>, <<2, 2>>}
TuneRanges == [n_estimators : MinMax, max_depth : MinMax, min_samples_leaf : MinMax]
NoRanges == [n_estimators |-> <<>>]

\* tune_hyperparameters.py: validate_ranges, the SystemExit message or ""
validate_ranges(a) ==
    IF a.n_estimators[1] >= a.n_estimators[2]
    THEN "--n-estimators-min must be < --n-estimators-max"
    ELSE IF a.max_depth[1] >= a.max_depth[2]
    THEN "--max-depth-min must be < --max-depth-max"
    ELSE IF a.min_samples_leaf[1] >= a.min_samples_leaf[2]
    THEN "--min-samples-leaf-min must be < --min-samples-leaf-max"
    ELSE ""

\* export_tree.py line 72: [c for c in df.columns if c != args.label_column]
IsNotLabel(c) == c # label_column
ExportTreeFeatureColumns(columns) == SelectSeq(columns, IsNotLabel)

\* the three checks each main makes on its dataset, given its feature columns:
\* the SystemExit message, or "" when main goes on to the fit
DatasetExit(features) ==
    IF ~largs.dataset_exists THEN "Dataset not found"
    ELSE IF ~InSeq(label_column, ldf) THEN "Missing label column"
    ELSE IF features = <<>> THEN "Dataset does not contain feature columns"
    ELSE ""

Load(exit, features) ==
    /\ lraised' = exit
    /\ lpc' = IF exit = "" THEN "training" ELSE "aborted"
    /\ lfeatures' = IF exit = "" THEN features ELSE <<>>
    /\ UNCHANGED <<largs, ldf, treeVars, weightVars, scanVars, forestVars, calVars>>

InitLoad ==
    /\ lpc = "start"
    /\ \E c \in Commands :
          largs \in [command : {c}, dataset_exists : BOOLEAN,
                     ranges : IF c = "tune-hyperparameters" THEN TuneRanges ELSE {NoRanges}]
    /\ IF largs.dataset_exists
       THEN \E n \in 0..MaxColumns :
               ldf \in {q \in [1..n -> ColumnNames] :
                           \A i, j \in 1..n : q[i] = q[j] => i = j}
       ELSE ldf = <<>>
    /\ lfeatures = <<>>
    /\ lraised = ""
    /\ TreeIdle
    /\ WeightIdle
    /\ ScanIdle
    /\ ForestIdle
    /\ CalIdle

\* export_tree.py main, lines 61-76
ExportTreeLoad ==
    /\ lpc = "start"
    /\ largs.command = "export-tree"
    /\ Load(DatasetExit(ExportTreeFeatureColumns(ldf)), ExportTreeFeatureColumns(ldf))

\* train_forest.py main, lines 94-122
TrainForestLoad ==
    /\ lpc = "start"
    /\ largs.command = "train-forest"
    /\ Load(DatasetExit(FeatureColumns(ldf)), FeatureColumns(ldf))

\* tune_hyperparameters.py main, lines 123-150
TuneLoad ==
    /\ lpc = "start"
    /\ largs.command = "tune-hyperparameters"
    /\ IF validate_ranges(largs.ranges) # ""
       THEN Load(validate_ranges(largs.ranges), <<>>)
       ELSE Load(DatasetExit(FeatureColumns(ldf)), FeatureColumns(ldf))

\* clf.fit(X, y) / rand_search.fit(X, y) on X = df[feature_columns]
Fit ==
    /\ lpc = "training"
    /\ lpc' = "trained"
    /\ UNCHANGED <<largs, ldf, lfeatures, lraised, treeVars, weightVars, scanVars, forestVars, calVars>>

NextLoad == ExportTreeLoad \/ TrainForestLoad \/ TuneLoad \/ Fit

SpecLoad == InitLoad /\ [][NextLoad]_vars

----------------------------------------------------------------------------
(* Evaluating a row: on the estimator's arrays, and on the encoded trees    *)
(* (left when the row's value <= the threshold, else right, until a leaf).  *)

\* the class a leaf of the estimator predicts: argmax of its class counts
RECURSIVE PredictArrays(_, _, _)
PredictArrays(t, node, row) ==
    IF t.feature[node + 1] = TREE_UNDEFINED
    THEN IF t.value[node + 1][2] > t.value[node + 1][1] THEN 1 ELSE 0
    ELSE IF row[feature_names[t.feature[node + 1] + 1]] <= t.threshold[node + 1]
         THEN PredictArrays(t, t.children_left[node + 1], row)
         ELSE PredictArrays(t, t.children_right[node + 1], row)

\* on the minified record: v is d4, the row's values are d5
RECURSIVE PredictMin(_, _)
PredictMin(json, row) ==
    IF json.t = "l"
    THEN IF 2 * json.v > D4 THEN 1 ELSE 0
    ELSE IF row[json.f] <= 10 * json.v
         THEN PredictMin(json.l, row)
         ELSE PredictMin(json.r, row)

\* on node_to_json's record
RECURSIVE PredictFull(_, _)
PredictFull(json, row) ==
    IF json.type = "leaf"
    THEN IF 2 * json.value[1] > json.value[2] THEN 1 ELSE 0
    ELSE IF row[json.feature] <= json.threshold
         THEN PredictFull(json.left, row)
         ELSE PredictFull(json.right, row)

\* the leaves of the arrays paired with the leaves of the record made from them:
\* a set of <<class counts, encoded leaf>>
RECURSIVE MinLeafPairs(_, _, _)
MinLeafPairs(t, node, json) ==
    IF json.t = "l"
    THEN {<<t.value[node + 1], json>>}
    ELSE MinLeafPairs(t, t.children_left[node + 1], json.l)
         \cup MinLeafPairs(t, t.children_right[node + 1], json.r)

RECURSIVE FullLeafPairs(_, _, _)
FullLeafPairs(t, node, json) ==
    IF json.type = "leaf"
    THEN {<<t.value[node + 1], json>>}
    ELSE FullLeafPairs(t, t.children_left[node + 1], json.left)
         \cup FullLeafPairs(t, t.children_right[node + 1], json.right)

LeafPairs ==
    IF tpc = "minified" THEN MinLeafPairs(tree_, 0, tjson)
    ELSE IF tpc = "full" THEN FullLeafPairs(tree_, 0, tjson)
    ELSE {}

Abs(x) == IF x < 0 THEN -x ELSE x

----------------------------------------------------------------------------
\* C1: for every tree and every feature row, walking the encoded tree
\* (left when value <= encoded threshold) predicts the class that walking the
\* estimator's arrays with the original thresholds predicts.
C1_RoundTrip ==
    /\ tpc = "minified" =>
         \A row \in Rows : PredictMin(tjson, row) = PredictArrays(tree_, 0, row)
    /\ tpc = "full" =>
         \A row \in Rows : PredictFull(tjson, row) = PredictArrays(tree_, 0, row)

\* C2 (as claimed): every encoded leaf probability lies in [0,1] and is
\* count_1 / (count_1 + count_0), 0.0 when the total is zero, in both encodings.
C2_LeafIsExactQuotient ==
    \A p \in LeafPairs :
        LET c1    == p[1][2]
            total == p[1][1] + p[1][2]
        IN  IF tpc = "minified"
            THEN /\ 0 <= p[2].v /\ p[2].v <= D4
                 /\ IF total = 0 THEN p[2].v = 0 ELSE p[2].v * total = c1 * D4
            ELSE /\ 0 <= p[2].value[1] /\ p[2].value[1] <= p[2].value[2]
                 /\ IF total = 0 THEN p[2].value[1] = 0
                    ELSE p[2].value[1] * total = c1 * p[2].value[2]

\* C2 (amended): every encoded leaf probability lies in [0,1]; node_to_json's
\* is count_1 / (count_1 + count_0); tree_to_json's is that quotient rounded to
\* 4 decimals (a 4-decimal number within 0.00005 of it); both are 0.0 when the
\* total is zero.
C2_LeafProbability ==
    \A p \in LeafPairs :
        LET c1    == p[1][2]
            total == p[1][1] + p[1][2]
        IN  IF tpc = "minified"
            THEN /\ 0 <= p[2].v /\ p[2].v <= D4
                 /\ IF total = 0 THEN p[2].v = 0
                    ELSE 2 * Abs(p[2].v * total - c1 * D4) <= total
            ELSE /\ 0 <= p[2].value[1] /\ p[2].value[1] <= p[2].value[2]
                 /\ IF total = 0 THEN p[2].value[1] = 0
                    ELSE p[2].value[1] * total = c1 * p[2].value[2]

\* a minified tree with a leaf of counts (2, 1), encoded 0.3333, and an empty leaf
C2_Witness ==
    /\ tpc = "minified"
    /\ \E p \in LeafPairs : p[1] = <<2, 1>> /\ p[2].v = 3333
    /\ \E p \in LeafPairs : p[1] = <<0, 0>> /\ p[2].v = 0

RECURSIVE MinShapeOK(_, _, _)
MinShapeOK(t, node, json) ==
    IF t.feature[node + 1] = TREE_UNDEFINED
    THEN DOMAIN json = {"t", "v"} /\ json.t = "l"
    ELSE /\ DOMAIN json = {"t", "f", "v", "l", "r"}
         /\ json.t = "n"
         /\ MinShapeOK(t, t.children_left[node + 1], json.l)
         /\ MinShapeOK(t, t.children_right[node + 1], json.r)

\* C3: in tree_to_json's record a node whose feature is the undefined sentinel
\* is exactly {t: "l", v}, the root included; every other node is exactly
\* {t: "n", f, v, l, r}.
C3_MinifiedKeys == tpc = "minified" => MinShapeOK(tree_, 0, tjson)

\* a single-node tree serialised as a bare leaf
C3_Witness ==
    /\ tpc = "minified"
    /\ Len(tree_.feature) = 1
    /\ tjson = [t |-> "l", v |-> 5000]

RECURSIVE SumSeq(_)
SumSeq(q) == IF q = <<>> THEN 0 ELSE q[1] + SumSeq(Tail(q))

\* C4: one weight per row; a row's weight is W when both zone columns are
\* present and bigram_entropy > 3.0 and domain_reputation_score >= 0.6, and 1.0
\* otherwise; with a zone column absent the call completes with every weight
\* 1.0; with W = 1.0 the weights sum to the row count.
C4_SampleWeights ==
    wpc = "done" =>
        /\ Len(weights) = Len(X.rows)
        /\ \A i \in 1..Len(X.rows) :
              LET both == ZoneColumns \subseteq X.columns
                  hit  == /\ both
                          /\ X.rows[i]["bigram_entropy"] > EntropyCut
                          /\ X.rows[i]["domain_reputation_score"] >= ReputationCut
              IN  weights[i] = IF hit THEN conflict_weight ELSE 1
        /\ ~(ZoneColumns \subseteq X.columns) => wmode = "skipped"
        /\ conflict_weight = 1 => SumSeq(weights) = Len(X.rows)

\* both columns present, W = 20: one row in the zone, one at entropy 3.0 exactly
C4_Witness ==
    /\ wpc = "done"
    /\ conflict_weight = 20
    /\ Len(weights) = 2
    /\ X.rows[1] = [bigram_entropy |-> 31, domain_reputation_score |-> 6]
    /\ X.rows[2] = [bigram_entropy |-> 30, domain_reputation_score |-> 6]
    /\ weights = <<20, 1>>

----------------------------------------------------------------------------
(* The threshold scan *)

RangeOK == range[3] > 0 /\ range[2] >= range[1]

\* C5: for step > 0 and max >= min, generate_thresholds returns exactly
\* floor((max - min)/step) + 1 thresholds: min, min + step, ... (each rounded
\* to 4 decimals), none greater than max.
C5_ThresholdCount ==
    (cpc \in {"generated", "scanned"} /\ RangeOK) =>
        /\ Len(thresholds) = ((range[2] - range[1]) \div range[3]) + 1
        /\ \A i \in 1..Len(thresholds) :
              /\ thresholds[i] = Round4(range[1] + (i - 1) * range[3])
              /\ range[1] + (i - 1) * range[3] <= range[2]

\* C6: each threshold of a report, after its rounding to 4 decimals, is
\* strictly greater than the one before it.
C6_StrictlyIncreasing ==
    cpc \in {"generated", "scanned"} =>
        \A i \in 1..(Len(thresholds) - 1) : thresholds[i] < thresholds[i + 1]

\* C7: generate_thresholds aborts, returning no thresholds, exactly when
\* step <= 0 or max < min; with max = min and step > 0 it returns one threshold.
C7_AbortIffBadRange ==
    cpc # "start" =>
        /\ cpc = "aborted" <=> (range[3] <= 0 \/ range[2] < range[1])
        /\ cpc = "aborted" => thresholds = <<>> /\ exit_message # ""
        /\ (range[3] > 0 /\ range[2] = range[1]) => Len(thresholds) = 1

\* max = min with a positive step: no abort, one threshold
C7_Witness ==
    /\ cpc = "generated"
    /\ range = <<50000, 50000, 5000>>
    /\ thresholds = <<5000>>

\* the four cells of prediction by label, counted from the rows
Cell(t, predicted, positive) ==
    Cardinality({i \in 1..Len(scores) :
                    /\ (scores[i] >= 10 * t) = predicted
                    /\ (labels[i] = 1) = positive})

CountsOK(m) ==
    /\ m.tp = Cell(m.threshold, TRUE, TRUE)
    /\ m.fp = Cell(m.threshold, TRUE, FALSE)
    /\ m.fn = Cell(m.threshold, FALSE, TRUE)
    /\ m.tn = Cell(m.threshold, FALSE, FALSE)
    /\ m.tp + m.fn = m.support_positive
    /\ m.fp + m.tn = m.support_negative
    /\ m.tp + m.fp + m.tn + m.fn = Len(scores)

\* r (d4) is exactly x / y, 0 when y is 0
ExactRatio(r, x, y) == IF y = 0 THEN r = 0 ELSE r * y = x * D4

\* r (d4) is x / y rounded to 4 decimals, 0 when y is 0
RoundedRatio(r, x, y) == IF y = 0 THEN r = 0 ELSE 2 * Abs(r * y - x * D4) <= y

FixtureOK ==
    (scores = FixtureScores /\ labels = FixtureLabels) =>
        \A i \in 1..Len(threshold_metrics) :
            LET m == threshold_metrics[i]
            IN  m.threshold = 5000 =>
                    /\ m.tp = 2 /\ m.fp = 0 /\ m.tn = 2 /\ m.fn = 0
                    /\ m.precision = D4 /\ m.recall = D4

\* C8 (as claimed): the counts are the four cells, and precision, recall, fpr,
\* fnr are the quotients themselves.
C8_MetricsExact ==
    cpc = "scanned" =>
        /\ \A i \in 1..Len(threshold_metrics) :
              LET m == threshold_metrics[i]
              IN  /\ CountsOK(m)
                  /\ ExactRatio(m.precision, m.tp, m.tp + m.fp)
                  /\ ExactRatio(m.recall, m.tp, m.tp + m.fn)
                  /\ ExactRatio(m.fpr, m.fp, m.fp + m.tn)
                  /\ ExactRatio(m.fnr, m.fn, m.tp + m.fn)
        /\ FixtureOK

\* C8 (amended): positive iff score >= t; tp, fp, tn, fn are the counts of the
\* four cells; precision, recall, fpr, fnr are the quotients rounded to 4
\* decimals, each 0 when its denominator is 0; the fixture gives tp=2, fp=0,
\* tn=2, fn=0, precision=1.0, recall=1.0 at t=0.5.
C8_Metrics ==
    cpc = "scanned" =>
        /\ \A i \in 1..Len(threshold_metrics) :
              LET m == threshold_metrics[i]
              IN  /\ CountsOK(m)
                  /\ RoundedRatio(m.precision, m.tp, m.tp + m.fp)
                  /\ RoundedRatio(m.recall, m.tp, m.tp + m.fn)
                  /\ RoundedRatio(m.fpr, m.fp, m.fp + m.tn)
                  /\ RoundedRatio(m.fnr, m.fn, m.tp + m.fn)
        /\ FixtureOK

\* the fixture scanned over the default range: the cells at 0.5, and at 0.15
\* a precision of 2/3 reported as 0.6667
C8_Witness ==
    /\ cpc = "scanned"
    /\ scores = FixtureScores /\ labels = FixtureLabels
    /\ \E i \in 1..Len(threshold_metrics) :
          /\ threshold_metrics[i].threshold = 5000
          /\ threshold_metrics[i].tp = 2 /\ threshold_metrics[i].tn = 2
    /\ \E i \in 1..Len(threshold_metrics) :
          /\ threshold_metrics[i].threshold = 1500
          /\ threshold_metrics[i].tp = 2 /\ threshold_metrics[i].fp = 1
          /\ threshold_metrics[i].precision = 6667

\* C9: across the sweep of one report, recall never increases from one
\* threshold to the next, and neither does the false-positive rate.
C9_RecallFprNonIncreasing ==
    cpc = "scanned" =>
        \A i \in 1..(Len(threshold_metrics) - 1) :
            /\ threshold_metrics[i + 1].recall <= threshold_metrics[i].recall
            /\ threshold_metrics[i + 1].fpr <= threshold_metrics[i].fpr

\* a sweep in which recall and fpr both drop
C9_Witness ==
    /\ cpc = "scanned"
    /\ \E i \in 1..(Len(threshold_metrics) - 1) :
          /\ threshold_metrics[i + 1].recall < threshold_metrics[i].recall
          /\ threshold_metrics[i + 1].fpr < threshold_metrics[i].fpr

----------------------------------------------------------------------------
(* train-forest *)

FitFailed == raised = "ValueError: LogisticRegression.fit needs samples of at least 2 classes"

\* C10: when the Platt fit fails for want of a second label class, the export
\* is not aborted: the artifact is written to the output path, without a
\* calibration entry in meta.
C10_ExportSurvivesFitFailure ==
    FitFailed => fpc # "aborted"

\* the value written under a key of a serialised dict
IndexOf(items, key) == (CHOOSE i \in 1..Len(items) : items[i][1] = key)
ItemOf(items, key) == items[IndexOf(items, key)][2]

WrittenMeta(e) == ItemOf(e.text, "meta")
WrittenRunId(e) == ItemOf(WrittenMeta(e), "runId")

Generated(e) == ~e.run_id.given \/ e.run_id.value = ""

\* C11: two exports of the same trees, features, importances, hyperparameters
\* and calibration that carry the same run identifier wrote the same text:
\* the same items in the same order, the same trees in the same order.
C11_ByteIdentical ==
    \A e1, e2 \in exports :
        WrittenRunId(e1) = WrittenRunId(e2) => e1.text = e2.text

\* two exports under --run-id run-7 at different clock readings, of a forest
\* with a split, calibration included
C11_Witness ==
    \E e1, e2 \in exports :
        /\ e1.run_id = [given |-> TRUE, value |-> "run-7"]
        /\ e2.run_id = e1.run_id
        /\ e1.now # e2.now
        /\ e1.text = e2.text
        /\ ItemOf(WrittenMeta(e1), "calibration").method = "platt"
        /\ \E k \in 1..Len(ItemOf(e1.text, "forest")) :
              ItemOf(e1.text, "forest")[k].t = "n"

\* C12 (as claimed): runId is the supplied id when one is supplied, else the
\* decimal string of the millisecond clock, and no two exports share a run
\* identifier.
C12_RunIdUnique ==
    /\ \A e \in exports :
          /\ e.run_id.given => WrittenRunId(e) = e.run_id.value
          /\ ~e.run_id.given => WrittenRunId(e) = ToString(e.now)
    /\ \A e1, e2 \in exports :
          e1 # e2 => WrittenRunId(e1) # WrittenRunId(e2)

\* C12 (amended): runId is the supplied id when a non-empty one is supplied,
\* else the decimal string of the millisecond clock at export; two exports
\* whose ids were both generated have distinct ids whenever their clock
\* readings differ.
C12_RunId ==
    /\ \A e \in exports :
          /\ ~Generated(e) => WrittenRunId(e) = e.run_id.value
          /\ Generated(e) => WrittenRunId(e) = ToString(e.now)
    /\ \A e1, e2 \in exports :
          (Generated(e1) /\ Generated(e2) /\ e1.now # e2.now) =>
              WrittenRunId(e1) # WrittenRunId(e2)

\* an export without --run-id at one millisecond, and one under --run-id ""
\* at the next
C12_Witness ==
    \E e1, e2 \in exports :
        /\ ~e1.run_id.given
        /\ e2.run_id = [given |-> TRUE, value |-> ""]
        /\ e1.now = 1000 /\ e2.now = 1001
        /\ WrittenRunId(e1) = "1000" /\ WrittenRunId(e2) = "1001"

----------------------------------------------------------------------------
(* the dataset loading of export-tree, train-forest, tune-hyperparameters *)

IsClaimedFeature(c) == c \notin {"label", "id", "email", "timestamp", "created_at"}
ClaimedFeatures == SelectSeq(ldf, IsClaimedFeature)

\* the dataset was read and holds its label column (and the ranges of
\* tune-hyperparameters were accepted)
DatasetRead ==
    /\ lpc # "start"
    /\ largs.dataset_exists
    /\ InSeq(label_column, ldf)
    /\ largs.command = "tune-hyperparameters" => validate_ranges(largs.ranges) = ""

\* C13: in export-tree, train-forest and tune-hyperparameters alike, the
\* feature columns handed to the fit are the dataset's columns in their order
\* without the label column and without id, email, timestamp, created_at;
\* when none is left the command aborts before the fit.
C13_FeatureSet ==
    /\ lpc \in {"training", "trained"} => lfeatures = ClaimedFeatures
    /\ (DatasetRead /\ ClaimedFeatures = <<>>) =>
            /\ lpc = "aborted"
            /\ lraised = "Dataset does not contain feature columns"

----------------------------------------------------------------------------
(* train-forest: the calibration *)

FitFields == {"method", "intercept", "coef", "samples"}

Calibrated == fpc \in {"calibrated", "saved", "done"}

\* the rows the calibration is to be fitted on: the held-out split, or with
\* --no-split the whole dataset, which is then the training data
ModeSamples == IF args.no_split THEN df.legit + df.fraud ELSE Size(y_test)

ModeLine ==
    IF args.no_split THEN "Calibration dataset: training set (100% of data)"
    ELSE "Calibration dataset: test set (held-out 20%)"

SampleOfMode == Calibrated => calibration_info.samples = ModeSamples

\* C15 (as claimed): calibration is fitted on the held-out split when a split
\* was taken and on the training data under --no-split, and meta.calibration
\* of the artifact holds a marker of the mode besides the fields of the fit.
C15_ModeMarkerInRecord ==
    /\ SampleOfMode
    /\ fpc = "done" => DOMAIN artifact.meta.calibration \ FitFields # {}

\* C15 (amended): calibration is fitted on the held-out split when a split was
\* taken and on the training data under --no-split; the mode is named in the
\* line the run prints before the fit and is kept in the artifact as
\* meta.config.no_split, while meta.calibration holds method, intercept, coef
\* and samples only.
C15_CalibrationMode ==
    /\ SampleOfMode
    /\ Calibrated => stdout[1] = ModeLine
    /\ fpc = "done" =>
          /\ artifact.meta.calibration = calibration_info
          /\ DOMAIN artifact.meta.calibration = FitFields
          /\ artifact.meta.config.no_split = args.no_split

\* an export under --no-split, calibrated on all the rows of a dataset of
\* both classes
C15_Witness ==
    /\ fpc = "done"
    /\ args.no_split
    /\ df.legit > 0 /\ df.fraud > 0
    /\ artifact.meta.calibration.samples = df.legit + df.fraud
    /\ artifact.meta.config.no_split
    /\ stdout[1] = "Calibration dataset: training set (100% of data)"

----------------------------------------------------------------------------
(* a fit with a negative coefficient *)

Lines(q) == {q[i] : i \in 1..Len(q)}

\* what train-forest prints and persists for any fit: its report of the
\* sample and of the two coefficients, and the headings of the export
ForestRoutine ==
    Lines(CalibrationDataset) \cup Lines(PlattCoefficients(calibration_info))
        \cup {"Saved calibration dataset"} \cup Lines(ExportReport)

ForestFlagged ==
    \/ \E i \in 1..Len(stdout) : stdout[i] \notin ForestRoutine
    \/ DOMAIN artifact.meta.calibration # FitFields
    \/ "calibration" \notin DOMAIN artifact.meta

\* what calibrate-scores prints for any fit
ScoresRoutine ==
    { "Calibration coefficients:",
      "  intercept: " \o ToString(model.intercept),
      "  coef: " \o ToString(model.coef),
      "Saved calibrated scores", "Saved threshold scan JSON", "Saved threshold scan CSV" }

ScoresFlagged ==
    \/ \E i \in 1..Len(cstdout) : cstdout[i] \notin ScoresRoutine
    \/ cfiles # {"output", "threshold_json", "threshold_csv"}

\* C16: a finished run whose calibration fit gave a negative coefficient has
\* flagged it, by a line besides its routine report or by a mark in what it
\* wrote; in train-forest and in calibrate-scores.
C16_NegativeCoefFlagged ==
    /\ (fpc = "done" /\ calibration_info.coef < 0) => ForestFlagged
    /\ (cpc = "done" /\ model.coef < 0) => ScoresFlagged

----------------------------------------------------------------------------
(* aborted runs *)

ForestInputExits ==
    { "SystemExit: Dataset not found",
      "SystemExit: Missing label column",
      "SystemExit: Dataset does not contain feature columns" }

ScoresInputExits ==
    { "Calibration input file not found",
      "Calibration CSV must contain 'score' and 'label' columns.",
      "--threshold-step must be greater than 0",
      "--threshold-max must be greater than or equal to --threshold-min" }

\* C17: a run that aborted on a fatal input condition has written no output
\* file: train-forest on a missing dataset, an absent label column or an
\* empty feature set; calibrate-scores on a missing input, a missing column
\* or a bad threshold range.
C17_NoOutputOnAbort ==
    /\ (fpc = "aborted" /\ raised \in ForestInputExits) => files = {}
    /\ (cpc = "aborted" /\ exit_message \in ScoresInputExits) => cfiles = {}

====
